---- MODULE Spec2Model ----
(***************************************************************************)
(* pp_extract.py: multi-threaded Source Extractor wrapper.                 *)
(*                                                                         *)
(* The model follows one call of extract_multiframe (the coordinator,      *)
(* thread Main) and the extractor threads it starts.  A thread takes a     *)
(* step where it may have to wait (get, threadLock.acquire, sex.wait,      *)
(* join) and a step for what it does while it holds threadLock; the        *)
(* statements after a release that touch only what is local to the thread  *)
(* (its dict out, its handle sex) belong to the step of the release.  A    *)
(* statement that raises ends the thread where it is: run() catches        *)
(* nothing but the failure of Popen.  The environment makes the job of one *)
(* file of a batch at most fail or hang.                                   *)
(*                                                                         *)
(* Specifications: Spec, one call of extract_multiframe; LiveSpec, one     *)
(* call under fair scheduling; RecallSpec, a second call after the first   *)
(* one returned, in the same process; NameSpec, the catalog name of a      *)
(* filename of any form; ApertureSpec, the aperture string of any list of  *)
(* radii.                                                                  *)
(***************************************************************************)
EXTENDS Integers, Sequences, FiniteSets, TLC

(***************************************************************************)
(* Bounds of the model.                                                    *)
(***************************************************************************)
\* largest batch (number of filenames handed to extract_multiframe)
MaxFiles == 3
\* capacity of extractQueue in the model; Queue.Queue(10000) in the source,
\* scaled down so that a batch larger than the capacity is within MaxFiles
QueueSize == 2
\* a filename of NameSpec is made of up to MaxParts pieces
MaxParts == 3
\* the aprad lists of ApertureSpec have up to MaxRadii radii, each a whole
\* number of pixels up to MaxRadii
MaxRadii == 3

(***************************************************************************)
(* Program constants.                                                      *)
(***************************************************************************)
\* nThreads = 10
NThreadsDefault == 10

Files == 1 .. MaxFiles
\* the extractor threads that call c of extract_multiframe can start, and
\* the call that starts thread w; the model has two calls
Pool(c) == ( c - 1 ) * MaxFiles + 1 .. c * MaxFiles
CallOf(w) == IF w \in Pool(1) THEN 1 ELSE 2
Threads == Pool(1) \cup Pool(2)
\* holders of threadLock
Main == << "main" >>
Free == << "free" >>
Thread(w) == << "extractor", w >>
\* a key with the value None
None == "None"
\* a local name that is not bound yet
Unbound == << >>
\* the local name sex bound to the process of an earlier job of the thread,
\* which has exited (the thread waited for it)
Stale == << 0 >>

\* _pp_conf.telescope_parameters[...] of the one telescope of the table
Obsparam == [ name |-> "TEL", aprad_default |-> 4 ]

\* the static table _pp_conf.telescope_parameters has one entry
KnownTelescopes == {"TEL"}
\* values of TEL_KEYW in a header, and of the telescope argument
TelescopeNames == {"TEL", "NOTEL"}
\* the aprad argument: a list of radii (floats), or one float; val is the
\* sequence of the radii
ListArg(v) == [ type |-> "list", val |-> v ]
FloatArg(x) == [ type |-> "float", val |-> << x >> ]
\* the aprad argument of the batches of Spec: the list [3.0]
ApradInputs == { ListArg(<< 3 >>) }
\* the values of the module global nThreads: the one of the source, and 1
\* for the comparison of the pooled run with the serial one
PoolSizes == {1, NThreadsDefault}

\* where the job of a file fails, if it does:
\*   remove  os.remove raises (line 90), launch  Popen raises (line 116),
\*   hang    the tool never exits (line 123), read  the catalog cannot be
\*   parsed (lines 127-128), open  fits.open or a header access raises
\*   (lines 132-161), flush  hdu.flush raises (line 164)
Outcomes == {"ok", "remove", "launch", "hang", "read", "open", "flush"}

\* the environment of a batch of n files: the job of one file at most does
\* not go through, at any one step
SingleFault(n) ==
    { [ f \in 1 .. n |-> IF f = g THEN o ELSE "ok" ] :
        g \in 0 .. n, o \in Outcomes }

VARIABLES
    filenames,        \* argument of extract_multiframe
    parameters,       \* argument of extract_multiframe (one shared dict)
    nThreads,         \* module global
    outcome,          \* environment: what happens to the job of each file
    pc_main,          \* position of the coordinator
    result,           \* how extract_multiframe ended
    idx,              \* enqueue loop: filenames put so far
    started,          \* spawn loop: threads started so far
    extractQueue,     \* Queue.queue, pending items
    unfinished_tasks, \* Queue.unfinished_tasks
    threadLock,       \* holder of the lock, or Free
    output,           \* the list handed to every extractor
    pc,               \* position of each extractor thread
    filename,         \* extractor local: the dequeued filename (0: none)
    out,              \* extractor local: index of its dict in output
    sex,              \* extractor local: the Popen handle it holds
    dequeued,         \* history: how often each filename came out of get
    paths,            \* the filename each entry of filenames stands for
    call,             \* the number of the call of extract_multiframe
    returned          \* the list the call before this one returned

vars == << filenames, parameters, nThreads, outcome, pc_main, result, idx,
           started, extractQueue, unfinished_tasks, threadLock, output, pc,
           filename, out, sex, dequeued, paths, call, returned >>

Min(a, b) == IF a <= b THEN a ELSE b

Range(s) == { s[k] : k \in 1 .. Len(s) }

\* a dict is a function on the keys it has; d[k] = v is Store(d, k, v)
Store(d, k, v) == [ x \in DOMAIN d \cup { k } |-> IF x = k THEN v ELSE d[x] ]

\* out = {}
EmptyDict == [ x \in { } |-> None ]

\* the keys of a finished record (lines 272-278)
Fields ==
    { "fits_filename", "ldac_filename", "parameters", "catalog_data", "time",
      "fits_header" }

(***************************************************************************)
(* Strings.  The model names a file by its place in filenames; paths has   *)
(* the string the name stands for, as the sequence of its characters.      *)
(***************************************************************************)
Fit == << ".", "f", "i", "t" >>
Fits == Fit \o << "s" >>
Ldac == << ".", "l", "d", "a", "c" >>

\* s.find(sub): the lowest index, counted from 0, at which sub starts in s,
\* and -1 when sub is not in s
Find(s, sub) ==
    LET at == { i \in 0 .. Len(s) - Len(sub) :
                  SubSeq(s, i + 1, i + Len(sub)) = sub }
    IN  IF at = { } THEN -1 ELSE CHOOSE i \in at : \A j \in at : i <= j

\* s[:n]: the first n characters of s, and for a negative n all but the
\* last -n characters
Prefix(s, n) ==
    IF n >= 0
      THEN SubSeq(s, 1, Min(n, Len(s)))
      ELSE SubSeq(s, 1, Len(s) + n)

\* lines 82, 126: filename[:filename.find('.fit')]+'.ldac'
ldacname(s) == Prefix(s, Find(s, Fit)) \o Ldac

\* str(x) of an int x, and of a float x that is a whole number
StrInt(x) == << ToString(x) >>
StrFloat(x) == << ToString(x), ".", "0" >>

\* sep.join(l) for a list l of strings
RECURSIVE StrJoin(_, _)
StrJoin(l, sep) ==
    CASE Len(l) = 0 -> << >>
      [] Len(l) = 1 -> l[1]
      [] OTHER -> l[1] \o sep \o StrJoin(Tail(l), sep)

\* the name of an image of the usual form: 1.fits, 2.fits, ...
ImageName(f) == << ToString(f) >> \o Fits

\* the pieces the filenames of NameSpec are made of: a, /, a.fit, a.fits
Pieces == { << "a" >>, << "/" >>, << "a" >> \o Fit, << "a" >> \o Fits }

\* the strings made of n pieces
RECURSIVE Joined(_)
Joined(n) ==
    IF n = 0
      THEN { << >> }
      ELSE { s \o q : s \in Joined(n - 1), q \in Pieces }

\* the filenames of NameSpec: one piece at least, MaxParts pieces at most
Names == UNION { Joined(n) : n \in 1 .. MaxParts }

\* the parameters dictionary as the caller builds it (lines 316-317); a
\* caller other than the script may leave the key telescope out
ParameterInputs ==
    [ telescope : TelescopeNames \cup { None }, aprad : ApradInputs ]
      \cup [ aprad : ApradInputs ]

Init ==
    /\ filenames \in { [ k \in 1 .. n |-> k ] : n \in 0 .. MaxFiles }
    /\ parameters \in ParameterInputs
    /\ nThreads \in PoolSizes
    /\ outcome \in SingleFault(Len(filenames))
    /\ pc_main = "open"
    /\ result = "none"
    /\ idx = 0
    /\ started = 0
    /\ extractQueue = << >>
    /\ unfinished_tasks = 0
    /\ threadLock = Free
    /\ output = << >>
    /\ pc = [ w \in Threads |-> "unstarted" ]
    /\ filename = [ w \in Threads |-> 0 ]
    /\ out = [ w \in Threads |-> 0 ]
    /\ sex = [ w \in Threads |-> Unbound ]
    /\ dequeued = [ f \in Files |-> 0 ]
    /\ paths = [ f \in Files |-> ImageName(f) ]
    /\ call = 1
    /\ returned = << >>

(***************************************************************************)
(* extract_multiframe (the coordinator)                                    *)
(***************************************************************************)

\* leaving extract_multiframe: r is "raised" (an exception reaches the
\* caller), "empty" (return {}) or "output" (return output)
Leave(r) ==
    /\ pc_main' = "done"
    /\ result' = r

\* the queue is filled before the telescope is looked up
OpenFirstAndPut ==
    /\ pc_main = "open"
    /\ IF Len(filenames) = 0
          THEN Leave("raised") /\ UNCHANGED << extractQueue, unfinished_tasks >>
          ELSE /\ pc_main' = "telescope"
               /\ result' = result
               /\ extractQueue' = Append(extractQueue, filenames[1])
               /\ unfinished_tasks' = unfinished_tasks + 1
    /\ UNCHANGED << filenames, parameters, nThreads, outcome, idx, started,
                    threadLock, output, pc, filename, out, sex, dequeued,
                    paths, call, returned >>

\* lines 188-194: logging, hdu = fits.open(filenames[0])
OpenFirst ==
    /\ pc_main = "open"
    /\ IF Len(filenames) = 0
          THEN Leave("raised")
          ELSE pc_main' = "telescope" /\ result' = result
    /\ UNCHANGED << filenames, parameters, nThreads, outcome, idx, started,
                    extractQueue, unfinished_tasks, threadLock, output, pc,
                    filename, out, sex, dequeued, paths, call, returned >>

\* lines 196-204: telescope from the header of the first image
ResolveTelescope ==
    /\ pc_main = "telescope"
    /\ IF "telescope" \notin DOMAIN parameters \/ parameters.telescope = None
          THEN \E h \in TelescopeNames \cup { None } :
                  IF h = None
                    THEN Leave("empty") /\ parameters' = parameters
                    ELSE /\ parameters' = Store(parameters, "telescope", h)
                         /\ pc_main' = "obsparam"
                         /\ result' = result
          ELSE /\ pc_main' = "obsparam"
               /\ UNCHANGED << parameters, result >>
    /\ UNCHANGED << filenames, nThreads, outcome, idx, started, extractQueue,
                    unfinished_tasks, threadLock, output, pc, filename, out,
                    sex, dequeued, paths, call, returned >>

\* lines 205-211: the except branch formats the global name telescope,
\* which exists only when the module runs as a script
LookupObsparam ==
    /\ pc_main = "obsparam"
    /\ IF parameters.telescope \in KnownTelescopes
          THEN /\ parameters' = Store(parameters, "obsparam", Obsparam)
               /\ pc_main' = "aperture"
               /\ result' = result
          ELSE /\ \E r \in { "empty", "raised" } : Leave(r)
               /\ parameters' = parameters
    /\ UNCHANGED << filenames, nThreads, outcome, idx, started, extractQueue,
                    unfinished_tasks, threadLock, output, pc, filename, out,
                    sex, dequeued, paths, call, returned >>

\* the radii joined as they are, not doubled
ApertureRadii(aprad, obsparam) ==
    IF \/ aprad.type = "float" /\ aprad.val = << 0 >>
       \/ aprad.type = "list" /\ Len(aprad.val) = 0
      THEN StrInt(obsparam.aprad_default * 2)
      ELSE StrJoin([ k \in 1 .. Len(aprad.val) |->
                       StrFloat(aprad.val[k]) ],
                   << "," >>)

\* lines 214-224: the string parameters['aperture_diam']; a float that is
\* not 0 goes through [str(aprad)] and float(rad) and comes out as it was
ApertureDiam(aprad, obsparam) ==
    IF \/ aprad.type = "float" /\ aprad.val = << 0 >>
       \/ aprad.type = "list" /\ Len(aprad.val) = 0
      THEN StrInt(obsparam.aprad_default * 2)
      ELSE StrJoin([ k \in 1 .. Len(aprad.val) |->
                       StrFloat(aprad.val[k] * 2) ],
                   << "," >>)

\* lines 220-222: parameters['aprad'] = [str(parameters['aprad'])] when it
\* is no list and the default is not taken
AsList(aprad) ==
    IF aprad.type = "float" /\ aprad.val # << 0 >>
      THEN ListArg(aprad.val)
      ELSE aprad

\* lines 213-224
SetAperture ==
    /\ pc_main = "aperture"
    /\ parameters' =
          Store(Store(parameters, "aprad", AsList(parameters.aprad)),
                "aperture_diam",
                ApertureDiam(parameters.aprad, parameters.obsparam))
    /\ pc_main' = "binning"
    /\ UNCHANGED << filenames, nThreads, outcome, result, idx, started,
                    extractQueue, unfinished_tasks, threadLock, output, pc,
                    filename, out, sex, dequeued, paths, call, returned >>

\* lines 227-248: binning from the header (a header access can raise),
\* the mask file if the table has one for this binning, output = []
CheckBinning ==
    /\ pc_main = "binning"
    /\ \E b \in { "raise", "nomask", "mask" } :
          CASE b = "raise" ->
                 /\ Leave("raised")
                 /\ UNCHANGED << parameters, output >>
            [] b = "nomask" ->
                 /\ pc_main' = "enqueue"
                 /\ output' = << >>
                 /\ UNCHANGED << parameters, result >>
            [] b = "mask" ->
                 /\ parameters' = Store(parameters, "mask_file", "mask.fits")
                 /\ pc_main' = "enqueue"
                 /\ output' = << >>
                 /\ result' = result
    /\ UNCHANGED << filenames, nThreads, outcome, idx, started, extractQueue,
                    unfinished_tasks, threadLock, pc, filename, out, sex,
                    dequeued, paths, call, returned >>

\* Queue.full()
Full == Len(extractQueue) >= QueueSize

\* lines 252-254: the queue is full, time.sleep(0.5) and look again
Sleep ==
    /\ pc_main = "enqueue"
    /\ Full
    /\ UNCHANGED vars

\* lines 251-257: extractQueue.put(filename) for the next filename
Put ==
    /\ pc_main = "enqueue"
    /\ ~ Full
    /\ extractQueue' = Append(extractQueue, filenames[idx + 1])
    /\ unfinished_tasks' = unfinished_tasks + 1
    /\ idx' = idx + 1
    /\ pc_main' = IF idx + 1 = Len(filenames) THEN "spawn" ELSE "enqueue"
    /\ UNCHANGED << filenames, parameters, nThreads, outcome, result, started,
                    threadLock, output, pc, filename, out, sex, dequeued,
                    paths, call, returned >>

\* one thread per filename, whatever nThreads is
OnePerFile == Len(filenames)

\* line 261: min([nThreads, len(filenames)])
PoolSize == Min(nThreads, Len(filenames))

\* lines 261-262: extractor(parameters, output).start(), a new thread of
\* this call
Spawn ==
    /\ pc_main = "spawn"
    /\ started' = started + 1
    /\ pc' = [ pc EXCEPT ![( call - 1 ) * MaxFiles + started + 1] = "get" ]
    /\ pc_main' = IF started + 1 >= PoolSize THEN "lock" ELSE "spawn"
    /\ UNCHANGED << filenames, parameters, nThreads, outcome, result, idx,
                    extractQueue, unfinished_tasks, threadLock, output,
                    filename, out, sex, dequeued, paths, call, returned >>

\* lines 265-266: threadLock.acquire(), threadLock.release()
MainLock ==
    /\ pc_main = "lock"
    /\ threadLock = Free
    /\ pc_main' = "join"
    /\ UNCHANGED << filenames, parameters, nThreads, outcome, result, idx,
                    started, extractQueue, unfinished_tasks, threadLock,
                    output, pc, filename, out, sex, dequeued, paths, call,
                    returned >>

\* a wait for the queue to be empty, not for the tasks to be done
QueueEmpty == extractQueue = << >>

\* Queue.join(): waits until unfinished_tasks is zero
AllTasksDone == unfinished_tasks = 0

\* lines 267-281: extractQueue.join(), return output
Join ==
    /\ pc_main = "join"
    /\ AllTasksDone
    /\ Leave("output")
    /\ UNCHANGED << filenames, parameters, nThreads, outcome, idx, started,
                    extractQueue, unfinished_tasks, threadLock, output, pc,
                    filename, out, sex, dequeued, paths, call, returned >>

(***************************************************************************)
(* extractor.run (one thread per started extractor)                        *)
(***************************************************************************)

Goto(w, l) == pc' = [ pc EXCEPT ![w] = l ]

\* an exception leaves run(): the thread ends where it is, it releases
\* nothing and calls no task_done
Crash(w) == Goto(w, "crashed")

\* an acquire that does not wait for the lock to be free
AcquireNoWait(w, l) ==
    /\ threadLock' = Thread(w)
    /\ Goto(w, l)

\* threadLock.acquire() at lines 76, 89, 163, 169
Acquire(w, l) ==
    /\ threadLock = Free
    /\ threadLock' = Thread(w)
    /\ Goto(w, l)

\* threadLock.release() at lines 78, 91, 165, 175
Release(w, l) ==
    /\ threadLock' = Free
    /\ Goto(w, l)

\* self.output (line 64): the list of the call that started the thread;
\* for a thread of the call before, the list that call returned
SelfOutput(w) == IF CallOf(w) = call THEN output ELSE returned

\* a write to the list self.output refers to
SetSelfOutput(w, l) ==
    IF CallOf(w) = call
      THEN output' = l /\ returned' = returned
      ELSE returned' = l /\ output' = output

\* out[k] = v for every key k of d; out is the dict in the list self.output
SetFields(w, d) ==
    SetSelfOutput(w, [ SelfOutput(w) EXCEPT ![out[w]] = d @@ @ ])

\* lines 82, 126: the catalog name of the file that f stands for
LdacName(f) == ldacname(paths[f])

\* self.param (line 63): a reference to the parameters dict of the call
\* that started the thread
SelfParam(w) == << "parameters", CallOf(w) >>

\* lines 83-85: out['fits_filename'], out['ldac_filename'] and
\* out['parameters']
NamesOf(w) ==
    [ fits_filename |-> filename[w], ldac_filename |-> LdacName(filename[w]),
      parameters |-> SelfParam(w) ] @@ EmptyDict

\* a get that leaves the item in the queue
GetPeek(w) ==
    /\ pc[w] = "get"
    /\ extractQueue # << >>
    /\ filename' = [ filename EXCEPT ![w] = Head(extractQueue) ]
    /\ dequeued' = [ dequeued EXCEPT ![Head(extractQueue)] = @ + 1 ]
    /\ Goto(w, "lock_append")
    /\ UNCHANGED << filenames, parameters, nThreads, outcome, pc_main, result,
                    idx, started, extractQueue, unfinished_tasks, threadLock,
                    output, out, sex, paths, call, returned >>

\* lines 69-70: extractQueue.get(True, 1) returns the head of the queue
Get(w) ==
    /\ pc[w] = "get"
    /\ extractQueue # << >>
    /\ filename' = [ filename EXCEPT ![w] = Head(extractQueue) ]
    /\ extractQueue' = Tail(extractQueue)
    /\ dequeued' = [ dequeued EXCEPT ![Head(extractQueue)] = @ + 1 ]
    /\ Goto(w, "lock_append")
    /\ UNCHANGED << filenames, parameters, nThreads, outcome, pc_main, result,
                    idx, started, unfinished_tasks, threadLock, output, out,
                    sex, paths, call, returned >>

\* lines 70-72: the queue stayed empty for the timeout, Queue.Empty, break
GetTimeout(w) ==
    /\ pc[w] = "get"
    /\ extractQueue = << >>
    /\ Goto(w, "exited")
    /\ UNCHANGED << filenames, parameters, nThreads, outcome, pc_main, result,
                    idx, started, extractQueue, unfinished_tasks, threadLock,
                    output, filename, out, sex, dequeued, paths, call,
                    returned >>

\* lines 75-76: out = {}, threadLock.acquire()
LockAppend(w) ==
    /\ pc[w] = "lock_append"
    /\ Acquire(w, "append")
    /\ UNCHANGED << filenames, parameters, nThreads, outcome, pc_main, result,
                    idx, started, extractQueue, unfinished_tasks, output,
                    filename, out, sex, dequeued, paths, call, returned >>

\* the dict is appended twice
AppendOutTwice(w) ==
    /\ pc[w] = "append"
    /\ SetSelfOutput(w, Append(Append(SelfOutput(w), NamesOf(w)),
                                NamesOf(w)))
    /\ out' = [ out EXCEPT ![w] = Len(SelfOutput(w)) + 1 ]
    /\ Release(w, "lock_remove")
    /\ UNCHANGED << filenames, parameters, nThreads, outcome, pc_main, result,
                    idx, started, extractQueue, unfinished_tasks, filename,
                    sex, dequeued, paths, call >>

\* lines 77-85: self.output.append(out), threadLock.release(), then the
\* first three fields of out (which is in the list by now)
AppendOut(w) ==
    /\ pc[w] = "append"
    /\ SetSelfOutput(w, Append(SelfOutput(w), NamesOf(w)))
    /\ out' = [ out EXCEPT ![w] = Len(SelfOutput(w)) + 1 ]
    /\ Release(w, "lock_remove")
    /\ UNCHANGED << filenames, parameters, nThreads, outcome, pc_main, result,
                    idx, started, extractQueue, unfinished_tasks, filename,
                    sex, dequeued, paths, call >>

\* line 89: threadLock.acquire()
LockRemove(w) ==
    /\ pc[w] = "lock_remove"
    /\ Acquire(w, "remove")
    /\ UNCHANGED << filenames, parameters, nThreads, outcome, pc_main, result,
                    idx, started, extractQueue, unfinished_tasks, output,
                    filename, out, sex, dequeued, paths, call, returned >>

\* lines 116-121: subprocess.Popen; when it raises, the error is logged
\* and sex keeps what it was bound to before
Popen(w) ==
    IF outcome[filename[w]] = "launch"
      THEN sex
      ELSE [ sex EXCEPT ![w] = << filename[w] >> ]

\* the thread keeps the name of its catalog in the shared parameters
RemoveStaleKeepName(w) ==
    /\ pc[w] = "remove"
    /\ IF outcome[filename[w]] = "remove"
          THEN Crash(w) /\ UNCHANGED << threadLock, sex >>
          ELSE Release(w, "wait") /\ sex' = Popen(w)
    /\ parameters' = Store(parameters, "ldac_filename", LdacName(filename[w]))
    /\ UNCHANGED << filenames, nThreads, outcome, pc_main, result, idx,
                    started, extractQueue, unfinished_tasks, output, filename,
                    out, dequeued, paths, call, returned >>

\* the lock is kept through the launch of the tool
RemoveStaleKeepLock(w) ==
    /\ pc[w] = "remove"
    /\ IF outcome[filename[w]] = "remove"
          THEN Crash(w) /\ UNCHANGED << threadLock, sex >>
          ELSE Goto(w, "wait") /\ sex' = Popen(w) /\ threadLock' = threadLock
    /\ UNCHANGED << filenames, parameters, nThreads, outcome, pc_main, result,
                    idx, started, extractQueue, unfinished_tasks, output,
                    filename, out, dequeued, paths, call, returned >>

\* lines 90-121: os.remove(ldacname) if it exists, threadLock.release(),
\* the command line, Popen; when os.remove raises, the release is never
\* reached
RemoveStale(w) ==
    /\ pc[w] = "remove"
    /\ IF outcome[filename[w]] = "remove"
          THEN Crash(w) /\ UNCHANGED << threadLock, sex >>
          ELSE Release(w, "wait") /\ sex' = Popen(w)
    /\ UNCHANGED << filenames, parameters, nThreads, outcome, pc_main, result,
                    idx, started, extractQueue, unfinished_tasks, output,
                    filename, out, dequeued, paths, call, returned >>

\* the process sex[w] refers to has exited: a process this thread waited
\* for in an earlier iteration, or a tool run that terminates
Exited(w) ==
    \/ sex[w] # << filename[w] >>
    \/ outcome[filename[w]] # "hang"

\* line 123: sex.wait(); NameError when sex was never bound
WaitTool(w) ==
    /\ pc[w] = "wait"
    /\ IF sex[w] = Unbound
          THEN Crash(w)
          ELSE Exited(w) /\ Goto(w, "read")
    /\ UNCHANGED << filenames, parameters, nThreads, outcome, pc_main, result,
                    idx, started, extractQueue, unfinished_tasks, threadLock,
                    output, filename, out, sex, dequeued, paths, call,
                    returned >>

\* the catalog file of this job is there and readable: the tool ran for
\* this file (the stale catalog was removed at line 90) and wrote it
CatalogReadable(w) ==
    /\ sex[w] = << filename[w] >>
    /\ outcome[filename[w]] # "read"

\* out['time'] is not written
ReadCatalogNoTime(w) ==
    /\ pc[w] = "read"
    /\ CASE ~ CatalogReadable(w) ->
               Crash(w) /\ UNCHANGED << output, returned >>
         [] CatalogReadable(w) /\ outcome[filename[w]] = "open" ->
               /\ SetFields(w, [ catalog_data |-> filename[w] ])
               /\ Crash(w)
         [] OTHER ->
               /\ SetFields(w, [ catalog_data |-> filename[w],
                                  fits_header |-> filename[w] ])
               /\ Goto(w, "lock_flush")
    /\ UNCHANGED << filenames, parameters, nThreads, outcome, pc_main, result,
                    idx, started, extractQueue, unfinished_tasks, threadLock,
                    filename, out, sex, dequeued, paths, call >>

\* lines 126-161: catalog(...).read_ldac(...), out['catalog_data'], then
\* fits.open(filename, mode='update'), the mid-time, the header fields,
\* out['time'] and out['fits_header']
ReadCatalog(w) ==
    /\ pc[w] = "read"
    /\ CASE ~ CatalogReadable(w) ->
               Crash(w) /\ UNCHANGED << output, returned >>
         [] CatalogReadable(w) /\ outcome[filename[w]] = "open" ->
               /\ SetFields(w, [ catalog_data |-> filename[w] ])
               /\ Crash(w)
         [] OTHER ->
               /\ SetFields(w, [ catalog_data |-> filename[w],
                                  time |-> filename[w],
                                  fits_header |-> filename[w] ])
               /\ Goto(w, "lock_flush")
    /\ UNCHANGED << filenames, parameters, nThreads, outcome, pc_main, result,
                    idx, started, extractQueue, unfinished_tasks, threadLock,
                    filename, out, sex, dequeued, paths, call >>

\* line 163: threadLock.acquire()
LockFlush(w) ==
    /\ pc[w] = "lock_flush"
    /\ Acquire(w, "flush")
    /\ UNCHANGED << filenames, parameters, nThreads, outcome, pc_main, result,
                    idx, started, extractQueue, unfinished_tasks, output,
                    filename, out, sex, dequeued, paths, call, returned >>

\* lines 164-167: hdu.flush(), threadLock.release(), hdu.close(); when
\* flush raises, the release is never reached
Flush(w) ==
    /\ pc[w] = "flush"
    /\ IF outcome[filename[w]] = "flush"
          THEN Crash(w) /\ threadLock' = threadLock
          ELSE Release(w, "lock_log")
    /\ UNCHANGED << filenames, parameters, nThreads, outcome, pc_main, result,
                    idx, started, extractQueue, unfinished_tasks, output,
                    filename, out, sex, dequeued, paths, call, returned >>

\* line 169: threadLock.acquire()
LockLog(w) ==
    /\ pc[w] = "lock_log"
    /\ Acquire(w, "log")
    /\ UNCHANGED << filenames, parameters, nThreads, outcome, pc_main, result,
                    idx, started, extractQueue, unfinished_tasks, output,
                    filename, out, sex, dequeued, paths, call, returned >>

\* an iteration that ends without task_done
TaskNotDone(w) ==
    /\ pc[w] = "log"
    /\ Release(w, "get")
    /\ filename' = [ filename EXCEPT ![w] = 0 ]
    /\ out' = [ out EXCEPT ![w] = 0 ]
    /\ sex' = [ sex EXCEPT ![w] = Stale ]
    /\ UNCHANGED << filenames, parameters, nThreads, outcome, pc_main, result,
                    idx, started, extractQueue, unfinished_tasks, output,
                    dequeued, paths, call, returned >>

\* lines 170-177: logging.info, print unless quiet, threadLock.release(),
\* extractQueue.task_done(), back to the head of the loop.  filename and
\* out are rebound before their next use (lines 70, 75), so the job's
\* values are dropped here; sex stays bound, to a process that has exited
TaskDone(w) ==
    /\ pc[w] = "log"
    /\ Release(w, "get")
    /\ unfinished_tasks' = unfinished_tasks - 1
    /\ filename' = [ filename EXCEPT ![w] = 0 ]
    /\ out' = [ out EXCEPT ![w] = 0 ]
    /\ sex' = [ sex EXCEPT ![w] = Stale ]
    /\ UNCHANGED << filenames, parameters, nThreads, outcome, pc_main, result,
                    idx, started, extractQueue, output, dequeued, paths, call,
                    returned >>

MainStep ==
    \/ OpenFirst
    \/ ResolveTelescope
    \/ LookupObsparam
    \/ SetAperture
    \/ CheckBinning
    \/ Sleep
    \/ Put
    \/ Spawn
    \/ MainLock
    \/ Join

Run(w) ==
    \/ Get(w)
    \/ GetTimeout(w)
    \/ LockAppend(w)
    \/ AppendOut(w)
    \/ LockRemove(w)
    \/ RemoveStale(w)
    \/ WaitTool(w)
    \/ ReadCatalog(w)
    \/ LockFlush(w)
    \/ Flush(w)
    \/ LockLog(w)
    \/ TaskDone(w)

Next == MainStep \/ \E w \in Threads : Run(w)

Spec == Init /\ [][Next]_vars

\* the scheduler runs the coordinator and every thread of the call when
\* they can take a step
Fairness ==
    /\ WF_vars(MainStep)
    /\ \A w \in Pool(1) : WF_vars(Run(w))

\* batches in which every job goes through: no step raises and the tool
\* exits
LiveInit ==
    /\ Init
    /\ \A f \in DOMAIN outcome : outcome[f] = "ok"

LiveSpec == LiveInit /\ [][Next]_vars /\ Fairness

\* the parameters of the two calls of RecallSpec, as the caller builds them
RecallParameters == [ telescope |-> "TEL", aprad |-> ListArg(<< 3 >>) ]

\* the caller has the list of the first call and calls extract_multiframe
\* again, with the same filenames and a new parameters dict.
\* The queue, the lock and the threads of the first call are those of the
\* module: a thread of the first call that has not timed out in its get
\* (line 70) is still there.  The name output of the second call is bound
\* at line 248 (CheckBinning).
Recall ==
    /\ call = 1
    /\ pc_main = "done"
    /\ result = "output"
    /\ call' = 2
    /\ returned' = output
    /\ parameters' = RecallParameters
    /\ pc_main' = "open"
    /\ result' = "none"
    /\ idx' = 0
    /\ started' = 0
    /\ dequeued' = [ f \in Files |-> 0 ]
    /\ UNCHANGED << filenames, nThreads, outcome, extractQueue,
                    unfinished_tasks, threadLock, output, pc, filename, out,
                    sex, paths >>

\* a first call with a batch in which no job fails
RecallInit ==
    /\ Init
    /\ parameters = RecallParameters
    /\ nThreads = NThreadsDefault
    /\ \A f \in DOMAIN outcome : outcome[f] = "ok"

RecallNext == Next \/ Recall

RecallSpec == RecallInit /\ [][RecallNext]_vars

\* a batch of one file, of any name: the thread has taken the filename and
\* holds threadLock for the append (line 76)
NameInit ==
    /\ filenames = << 1 >>
    /\ paths \in { [ f \in Files |-> IF f = 1 THEN s ELSE ImageName(f) ] :
                     s \in Names }
    /\ parameters =
          [ telescope |-> "TEL", aprad |-> ListArg(<< 3 >>),
            obsparam |-> Obsparam,
            aperture_diam |-> ApertureDiam(ListArg(<< 3 >>), Obsparam) ]
    /\ nThreads = NThreadsDefault
    /\ outcome = << "ok" >>
    /\ pc_main = "join"
    /\ result = "none"
    /\ idx = 1
    /\ started = 1
    /\ extractQueue = << >>
    /\ unfinished_tasks = 1
    /\ threadLock = Thread(1)
    /\ output = << >>
    /\ pc = [ w \in Threads |-> IF w = 1 THEN "append" ELSE "unstarted" ]
    /\ filename = [ w \in Threads |-> IF w = 1 THEN 1 ELSE 0 ]
    /\ out = [ w \in Threads |-> 0 ]
    /\ sex = [ w \in Threads |-> Unbound ]
    /\ dequeued = [ f \in Files |-> IF f = 1 THEN 1 ELSE 0 ]
    /\ call = 1
    /\ returned = << >>

\* lines 77-85 for that filename
NameNext == AppendOut(1)

NameSpec == NameInit /\ [][NameNext]_vars

\* the radii of ApertureSpec
Radii == 0 .. MaxRadii

\* the lists of n radii
RECURSIVE RadiiLists(_)
RadiiLists(n) ==
    IF n = 0
      THEN { << >> }
      ELSE { Append(l, r) : l \in RadiiLists(n - 1), r \in Radii }

\* the aprad arguments of ApertureSpec: the lists of up to MaxRadii radii,
\* and the floats
ApertureInputs ==
    { ListArg(l) : l \in UNION { RadiiLists(n) : n \in 0 .. MaxRadii } }
      \cup { FloatArg(r) : r \in Radii }

\* a batch of one file whose telescope is resolved, with any aprad
ApertureInit ==
    /\ filenames = << 1 >>
    /\ paths = [ f \in Files |-> ImageName(f) ]
    /\ parameters \in
          { [ telescope |-> "TEL", aprad |-> a, obsparam |-> Obsparam ] :
              a \in ApertureInputs }
    /\ nThreads = NThreadsDefault
    /\ outcome = << "ok" >>
    /\ pc_main = "aperture"
    /\ result = "none"
    /\ idx = 0
    /\ started = 0
    /\ extractQueue = << >>
    /\ unfinished_tasks = 0
    /\ threadLock = Free
    /\ output = << >>
    /\ pc = [ w \in Threads |-> "unstarted" ]
    /\ filename = [ w \in Threads |-> 0 ]
    /\ out = [ w \in Threads |-> 0 ]
    /\ sex = [ w \in Threads |-> Unbound ]
    /\ dequeued = [ f \in Files |-> 0 ]
    /\ call = 1
    /\ returned = << >>

\* lines 213-224 for that aprad
ApertureNext == SetAperture

ApertureSpec == ApertureInit /\ [][ApertureNext]_vars

(***************************************************************************)
(* Derived notions                                                         *)
(***************************************************************************)

\* the jobs in progress: dequeued, task_done not called
InFlight == { w \in Threads : filename[w] # 0 }

\* the job of file f went through all its steps, task_done included
Completed(f) ==
    /\ dequeued[f] > 0
    /\ \A w \in Threads : filename[w] # f

\* the job of file f ended by an exception
Failed(f) == \E w \in Threads : pc[w] = "crashed" /\ filename[w] = f

\* the records of output that are about file f
RecordsOf(f) ==
    { k \in 1 .. Len(output) :
        "fits_filename" \in DOMAIN output[k] /\ output[k].fits_filename = f }

Returned == pc_main = "done" /\ result = "output"

Aborted == pc_main = "done" /\ result \in { "raised", "empty" }

\* nothing moves any more: the coordinator is past the spawn loop and no
\* thread can take a step
AtRest ==
    /\ pc_main \in { "lock", "join" } \/ Returned
    /\ \A w \in Threads : ~ ENABLED Run(w)
    /\ ~ ENABLED MainStep

TypeOK ==
    /\ pc_main \in { "open", "telescope", "obsparam", "aperture", "binning",
                     "enqueue", "spawn", "lock", "join", "done" }
    /\ result \in { "none", "raised", "empty", "output" }
    /\ threadLock \in { Free, Main } \cup { Thread(w) : w \in Threads }
    /\ unfinished_tasks \in 0 .. MaxFiles
    /\ Len(extractQueue) <= QueueSize
    /\ started \in 0 .. MaxFiles

(***************************************************************************)
(* Claims                                                                  *)
(***************************************************************************)

\* C1: a step of one job that fails aborts that job only: the thread that
\* ran the job does not end, and once nothing moves any more the
\* coordinator has returned and every other filename of the batch has been
\* processed.
C1_FailureAbortsOnlyThatJob ==
    /\ \A w \in Threads : pc[w] # "crashed"
    /\ ( AtRest /\ \A f \in DOMAIN outcome : outcome[f] # "hang" )
          => /\ Returned
             /\ \A f \in Range(filenames) : outcome[f] = "ok" => Completed(f)

\* C2: a job that failed at some step has no record in the output list.
C2_NoRecordOfFailedJob ==
    \A f \in Range(filenames) : Failed(f) => RecordsOf(f) = { }

\* C3: when extract_multiframe returns its list, the queue has no pending
\* item and no item in flight: every filename it put has been taken by a
\* thread and marked done.
C3_QueueDrained ==
    Returned =>
        /\ extractQueue = << >>
        /\ InFlight = { }
        /\ \A w \in Threads : pc[w] \in { "unstarted", "get", "exited" }
        /\ \A f \in Range(filenames) : Completed(f)

\* a batch of two files has returned, two threads having run a job each
C3_Witness ==
    /\ Returned
    /\ Len(filenames) = 2
    /\ \A w \in 1 .. 2 : sex[w] = Stale

\* every filename of the batch has exactly one record, with all six fields
OneRecordPerFile ==
    /\ Len(output) = Len(filenames)
    /\ \A f \in Range(filenames) :
          /\ Cardinality(RecordsOf(f)) = 1
          /\ \A k \in RecordsOf(f) : DOMAIN output[k] = Fields

\* C4: a batch that got as far as the queue (non-empty, telescope
\* resolved), is no larger than the queue and has no job that fails or
\* hangs, is returned in the end with exactly one record per filename.
C4_BatchReturnsAllRecords ==
    ( /\ pc_main = "enqueue"
      /\ Len(filenames) <= QueueSize
      /\ \A f \in DOMAIN outcome : outcome[f] = "ok" )
        ~> ( Returned /\ OneRecordPerFile )

\* a batch of two files has returned with its two records
C4_Witness ==
    /\ Returned
    /\ Len(filenames) = 2
    /\ OneRecordPerFile
    /\ \A f \in DOMAIN outcome : outcome[f] = "ok"

\* the filenames that end with a completed record when one thread runs the
\* batch: the thread takes the filenames in queue order and ends (or hangs)
\* at the first job that does not go through
SerialDone ==
    { f \in Range(filenames) : \A g \in 1 .. f : outcome[g] = "ok" }

\* with pool size 1 the batch ends with the records SerialDone names
SerialDoneIsPoolSizeOne ==
    ( nThreads = 1 /\ AtRest ) => { f \in Files : Completed(f) } = SerialDone

\* C5: the filenames that end with a completed record are those the run
\* with pool size 1 ends with, whatever the pool size.
C5_SameFilesAsPoolSizeOne ==
    AtRest => { f \in Files : Completed(f) } = SerialDone

\* C6: no filename comes out of the queue more than once or is held by two
\* threads, at return every filename came out exactly once, and no two
\* records of the output list are about the same filename.
C6_DequeuedOnce ==
    /\ \A f \in Files : dequeued[f] <= 1
    /\ \A f \in Files : Cardinality({ w \in Threads : filename[w] = f }) <= 1
    /\ \A f \in Files : Cardinality(RecordsOf(f)) <= 1
    /\ Returned => \A f \in Range(filenames) : dequeued[f] = 1

\* two threads hold a job each, the records of both are in the list
C6_Witness ==
    /\ Cardinality(InFlight) = 2
    /\ Len(output) = 2

\* C7: the output list never has more records than the batch has filenames.
C7_NoMoreRecordsThanFiles == Len(output) <= Len(filenames)

\* the batch has returned with as many records as filenames
C7_Witness ==
    /\ Returned
    /\ Len(filenames) = 2
    /\ Len(output) = 2

\* C8: a batch that is aborted (no filename, no telescope in the parameters
\* nor in the header, telescope not in the table, or an exception before
\* the queue is filled) has put nothing in the queue, has started no thread
\* and has no record.
C8_AbortBeforeAnyJob ==
    Aborted =>
        /\ extractQueue = << >>
        /\ unfinished_tasks = 0
        /\ idx = 0
        /\ started = 0
        /\ \A w \in Threads : pc[w] = "unstarted"
        /\ \A f \in Files : dequeued[f] = 0
        /\ output = << >>

\* the telescope read from the header is not in the table: return {}
C8_Witness ==
    /\ Aborted
    /\ result = "empty"
    /\ Len(filenames) = 2
    /\ "telescope" \in DOMAIN parameters
    /\ parameters.telescope = "NOTEL"

\* the number of extractor threads that were started
StartedThreads == { w \in Threads : pc[w] # "unstarted" }

\* C9: the threads started are never more than the filenames nor more than
\* nThreads (10 in the source), and once the spawn loop is over they are
\* exactly min(nThreads, len(filenames)).
C9_PoolSize ==
    /\ Cardinality(StartedThreads) = started
    /\ started <= Len(filenames)
    /\ started <= nThreads
    /\ ( pc_main \in { "lock", "join" } \/ Returned )
          => started = Min(nThreads, Len(filenames))

\* two filenames and a pool of one: one thread is started
C9_Witness ==
    /\ pc_main = "join"
    /\ Len(filenames) = 2
    /\ nThreads = 1
    /\ started = 1

\* the keys extract_multiframe writes for every batch
ParametersComplete ==
    { "telescope", "obsparam", "aperture_diam" } \subseteq DOMAIN parameters

\* C10: the parameters are completely written before a thread takes its
\* first filename, and nothing writes to them once the first filename is in
\* the queue.
C10_ParametersFrozen ==
    /\ [] ( ( \E f \in Files : dequeued[f] > 0 ) => ParametersComplete )
    /\ [] [ idx > 0 => parameters' = parameters ]_vars

\* a thread has taken a filename of a batch that has a mask file
C10_Witness ==
    /\ dequeued[1] > 0
    /\ ParametersComplete
    /\ "mask_file" \in DOMAIN parameters

\* the positions of a thread inside a section guarded by threadLock: the
\* append to output, the removal of the old catalog, the flush, the log
Guarded == { "append", "remove", "flush", "log" }

\* the threads that are inside a guarded section
InGuarded == { w \in Threads : pc[w] \in Guarded }

\* C11: at most one thread at a time is inside a section guarded by
\* threadLock (removal of the old catalog, flush, append to output, log),
\* the thread inside is the holder of the lock, and so every append to
\* output is made by the holder of the lock.
C11_GuardedSectionsExclusive ==
    /\ Cardinality(InGuarded) <= 1
    /\ \A w \in InGuarded : threadLock = Thread(w)

\* a thread is about to append its dict while another one, which has
\* finished reading its catalog, waits for the lock to flush
C11_Witness ==
    \E w, v \in Threads :
        /\ pc[w] = "append"
        /\ threadLock = Thread(w)
        /\ pc[v] = "lock_flush"

\* C12: a record is in output only when its job has completed (task_done
\* included), and no step writes a field of a record that is in output.
C12_RecordsAddedCompleteAndFrozen ==
    /\ [] ( \A k \in 1 .. Len(output) :
               /\ "fits_filename" \in DOMAIN output[k]
               /\ Completed(output[k].fits_filename) )
    /\ [] [ \A k \in 1 .. Len(output) :
               k <= Len(output') => output'[k] = output[k] ]_vars

\* C13: every record of the list extract_multiframe returns has all six
\* fields (fits_filename, ldac_filename, parameters, catalog_data, time,
\* fits_header): no record of the returned list is partly filled.
C13_ReturnedRecordsComplete ==
    Returned => \A k \in 1 .. Len(output) : DOMAIN output[k] = Fields

\* a batch of two files run by two threads has returned two records, the
\* record of the second file first
C13_Witness ==
    /\ Returned
    /\ Len(output) = 2
    /\ started = 2
    /\ output[1].fits_filename = 2
    /\ \A k \in 1 .. 2 : "time" \in DOMAIN output[k]

\* s ends with t
EndsWith(s, t) ==
    /\ Len(s) >= Len(t)
    /\ SubSeq(s, Len(s) - Len(t) + 1, Len(s)) = t

\* s without its image suffix (.fits or .fit at the end of s); all of s
\* when s does not end with one
Stem(s) ==
    CASE EndsWith(s, Fits) -> SubSeq(s, 1, Len(s) - Len(Fits))
      [] EndsWith(s, Fit) -> SubSeq(s, 1, Len(s) - Len(Fit))
      [] OTHER -> s

\* C14: the ldac_filename of every record is the filename with its image
\* suffix replaced by .ldac and nothing else changed, whatever the
\* filename looks like (.fit in a directory name, no .fit at all).
C14_CatalogNameReplacesSuffix ==
    \A k \in 1 .. Len(output) :
        output[k].ldac_filename =
            Stem(paths[output[k].fits_filename]) \o Ldac

\* s.split(sep) for a separator of one character
RECURSIVE Split(_, _)
Split(s, sep) ==
    LET i == Find(s, sep)
    IN  IF i = -1
          THEN << s >>
          ELSE << SubSeq(s, 1, i) >> \o Split(SubSeq(s, i + 2, Len(s)), sep)

\* float(s) for the text of a whole number, -1 for any other text
ParseFloat(s) ==
    LET xs == { x \in 0 .. 2 * (MaxRadii + Obsparam.aprad_default) :
                  s = StrInt(x) \/ s = StrFloat(x) }
    IN  IF xs = { } THEN -1 ELSE CHOOSE x \in xs : TRUE

\* the numbers a comma-separated string lists
Values(s) ==
    LET l == Split(s, << "," >>)
    IN  [ k \in 1 .. Len(l) |-> ParseFloat(l[k]) ]

LaunchFailed(w) == filename[w] # 0 /\ outcome[filename[w]] = "launch"

\* C16: when Popen raises for a job, the thread logs it and goes on with
\* the next item: it does not go on to read a catalog for that job, it
\* does not end, and once nothing moves any more extract_multiframe has
\* returned.
C16_LaunchFailureSkipsJob ==
    /\ \A w \in Threads : LaunchFailed(w) => pc[w] \notin { "read", "crashed" }
    /\ ( AtRest /\ \A f \in DOMAIN outcome : outcome[f] \in { "ok", "launch" } )
          => Returned

\* C17: whatever the size of the batch, larger than the capacity of the
\* queue or not, the enqueue loop puts every filename in the queue in the
\* end, none dropped, and the coordinator gets to the loop that starts the
\* threads.
C17_EnqueueLoopEnds ==
    /\ [] ( ( pc_main = "spawn" /\ started = 0 ) => extractQueue = filenames )
    /\ ( pc_main = "enqueue" ) ~> ( pc_main = "spawn" )

\* thread w stopped inside a guarded statement that raised
StoppedInGuarded(w) ==
    /\ pc[w] = "crashed"
    /\ outcome[filename[w]] \in { "remove", "flush" }

\* C18: a thread that has launched the tool, waits for it or reads the
\* catalog does not hold threadLock; a thread holds the lock only inside
\* the removal of the old catalog, the append, the flush and the log.
C18_ToolRunsUnlocked ==
    \A w \in Threads :
        /\ pc[w] \in { "wait", "read" } => threadLock # Thread(w)
        /\ threadLock = Thread(w) => pc[w] \in Guarded \/ StoppedInGuarded(w)

\* the tool of one thread runs while another thread removes its old
\* catalog under the lock
C18_Witness ==
    \E w, v \in Threads :
        /\ pc[w] = "wait"
        /\ sex[w] = << filename[w] >>
        /\ pc[v] = "remove"
        /\ threadLock = Thread(v)

\* C19: in a second call of extract_multiframe, made after the first one
\* returned, a filename is taken only by a thread the second call started,
\* and the list the second call returns has one complete record per
\* filename, each with the parameters of the second call.
C19_SecondCallOwnsItsJobs ==
    call = 2 =>
        /\ \A w \in Threads : filename[w] # 0 => CallOf(w) = 2
        /\ Returned =>
              /\ OneRecordPerFile
              /\ \A k \in 1 .. Len(output) :
                    output[k].parameters = << "parameters", 2 >>

\* the positions of a thread that waits for threadLock
Acquiring == { "lock_append", "lock_remove", "lock_flush", "lock_log" }

\* C20: a thread that has left a guarded section, by its end or by an
\* exception of the guarded statement, does not hold threadLock; so once
\* nothing moves any more, no thread and not the coordinator (line 265)
\* is waiting for the lock.
C20_LockReleasedOnEveryExit ==
    /\ \A w \in Threads : threadLock = Thread(w) => pc[w] \in Guarded
    /\ AtRest =>
          /\ pc_main # "lock"
          /\ \A w \in Threads : pc[w] \notin Acquiring

====
